---- MODULE Spec2Model ----
(***************************************************************************)
(* DiviTrack (src/app.py): a Streamlit script.  Every user interaction     *)
(* re-executes the script top to bottom: the sidebar form may append a     *)
(* holding to st.session_state.portfolio, the clear button empties it, and *)
(* the processing engine then walks the portfolio, fetches each holding's  *)
(* dividend history, keeps the dividends after the purchase date, sums the *)
(* payouts and derives the tax figures and the sorted transaction log.     *)
(*                                                                         *)
(* Text is a sequence of one-character strings, so that split, replace,    *)
(* strip, upper and endswith are computed character by character.  Dates   *)
(* are day numbers.  Money is an integer number of 1/10000 rupee.          *)
(***************************************************************************)
EXTENDS Integers, Sequences, FiniteSets, TLC

VARIABLES
    stock_map_df,          \* the Search_Label column; {} when EQUITY_L.csv is missing
    dividends,             \* the provider: ticker -> dividend history (external data)
    unlisted,              \* what the provider answers for any other ticker
    portfolio,             \* st.session_state.portfolio
    tax_slab, apply_tds,   \* the two tax widgets
    form_msg,              \* what the form reported on its last submission
    pc,                    \* "loop": inside the holdings loop; "done": script finished
    i,                     \* position of the holdings loop (1-based)
    total_gross_dividend, all_payouts,
    origin,                \* for each row of all_payouts, the position of its holding
    errors,                \* tickers for which the loop reported st.error
    fetch_log,             \* tickers whose history was requested in this run, in order
    tds_amount, income_tax_amount, final_in_hand,
    df_results,            \* the sorted transaction log (<<>> when none is shown)
    prev_run               \* output of the previous run when nothing changed since

vars == <<stock_map_df, dividends, unlisted, portfolio, tax_slab, apply_tds, form_msg,
          pc, i, total_gross_dividend, all_payouts, origin, errors, fetch_log,
          tds_amount, income_tax_amount, final_in_hand, df_results, prev_run>>

(***************************************************************************)
(* Bounds of the model.                                                    *)
(***************************************************************************)
MaxHoldings == 2
MaxDate == 3

(***************************************************************************)
(* Python values and string methods.                                       *)
(***************************************************************************)
\* None and a pandas NaN label: distinct from every text (no element of a text
\* is longer than one character).
None == <<"None">>
NaN == <<"nan">>

\* bool(x) of a selection or text input
Truthy(x) == x # None /\ x # <<>>

MinOf(S) == CHOOSE x \in S : \A y \in S : x <= y
MaxOf(S) == CHOOSE x \in S : \A y \in S : x >= y

IndexesOf(s, c) == {k \in 1..Len(s) : s[k] = c}

\* s.split(c)[-1]
SplitLast(s, c) ==
    IF IndexesOf(s, c) = {} THEN s
    ELSE SubSeq(s, MaxOf(IndexesOf(s, c)) + 1, Len(s))

\* s.split(c)[0]
SplitFirst(s, c) ==
    IF IndexesOf(s, c) = {} THEN s
    ELSE SubSeq(s, 1, MinOf(IndexesOf(s, c)) - 1)

\* s.replace(c, "")
Replace(s, c) == SelectSeq(s, LAMBDA x : x # c)

\* s.strip()
Strip(s) ==
    LET ks == {k \in 1..Len(s) : s[k] # " "}
    IN  IF ks = {} THEN <<>> ELSE SubSeq(s, MinOf(ks), MaxOf(ks))

LowerCase == <<"a","b","c","d","e","f","g","h","i","j","k","l","m",
               "n","o","p","q","r","s","t","u","v","w","x","y","z">>
UpperCase == <<"A","B","C","D","E","F","G","H","I","J","K","L","M",
               "N","O","P","Q","R","S","T","U","V","W","X","Y","Z">>

UpperChar(c) ==
    IF \E k \in 1..Len(LowerCase) : LowerCase[k] = c
    THEN UpperCase[CHOOSE k \in 1..Len(LowerCase) : LowerCase[k] = c]
    ELSE c

\* s.upper()
Upper(s) == [k \in 1..Len(s) |-> UpperChar(s[k])]

\* s.endswith(suf)
EndsWith(s, suf) ==
    /\ Len(s) >= Len(suf)
    /\ SubSeq(s, Len(s) - Len(suf) + 1, Len(s)) = suf

DotNS == <<".", "N", "S">>

(***************************************************************************)
(* The reference list: Search_Label = NAME OF COMPANY + " (" + SYMBOL + ")"*)
(* A row with a missing cell gives a NaN label.                            *)
(***************************************************************************)
Search_Label(name, symbol) ==
    IF name = NaN \/ symbol = NaN THEN NaN
    ELSE name \o <<" ", "(">> \o symbol \o <<")">>

WiproName == <<"W","i","p","r","o"," ","L","t","d">>
WiproSymbol == <<"W","I","P","R","O">>
ItcName == <<"I","T","C"," ","L","t","d">>
ItcSymbol == <<"I","T","C">>
WiproNS == WiproSymbol \o DotNS
ItcNS == ItcSymbol \o DotNS

\* The reference list of the engine runs
StockMap == {Search_Label(WiproName, WiproSymbol), Search_Label(ItcName, ItcSymbol)}

\* The reference list of the form runs: also a company name holding a
\* parenthesis, a blank symbol, a symbol already carrying the suffix, a
\* lower-case symbol, a symbol with '&' and a row with a missing cell.
FormStockMap ==
    { Search_Label(WiproName, WiproSymbol),
      Search_Label(<<"A"," ","(","I",")"," ","L","t","d">>, <<"A","I","L">>),
      Search_Label(<<"N","i","l">>, <<" ">>),
      Search_Label(<<"D","o","t">>, <<"W",".","N","S">>),
      Search_Label(<<"L","o","w">>, <<"l","o","w">>),
      Search_Label(<<"M","a","h">>, <<"M","&","M">>),
      Search_Label(<<"G","a","p">>, NaN) }

\* Manual entries of the engine runs: a lower-case symbol without the suffix,
\* and the box left empty.
ManualInputs == {<<"w","i","p","r","o">>, <<>>}

\* Manual entries of the form runs
FormManualInputs ==
    { ItcNS, <<"i","t","c">>, <<" ","i","t"," ","c"," ">>, <<>>, <<" ">>,
      <<"M","&","M">>, <<"i","t","c",".","n","s">>, <<".","N","S">> }

(***************************************************************************)
(* The sidebar form, lines 55-109.                                         *)
(***************************************************************************)
\* lines 58-79: the searchable dropdown.  A NaN label is truthy and has no
\* split method: the bare except reports the error and nothing is selected.
ResolveSelection(user_selection) ==
    IF ~Truthy(user_selection)
    THEN [ticker |-> None, name |-> None, parse_error |-> FALSE]
    ELSE IF user_selection = NaN
    THEN [ticker |-> None, name |-> None, parse_error |-> TRUE]
    ELSE LET clean_symbol == Strip(Replace(SplitLast(user_selection, "("), ")"))
         IN  [ticker |-> clean_symbol \o DotNS,
              name |-> Strip(SplitFirst(user_selection, "(")),
              parse_error |-> FALSE]

\* lines 84-91: the manual text box
ResolveManual(raw_input) ==
    IF ~Truthy(raw_input)
    THEN [ticker |-> None, name |-> None, parse_error |-> FALSE]
    ELSE LET clean_symbol == Strip(Replace(Upper(raw_input), " "))
             selected_ticker_symbol ==
                 IF EndsWith(clean_symbol, DotNS) THEN clean_symbol
                 ELSE clean_symbol \o DotNS
         IN  [ticker |-> selected_ticker_symbol,
              name |-> selected_ticker_symbol,
              parse_error |-> FALSE]

(***************************************************************************)
(* The market-data provider (yfinance), an external collaborator.  A       *)
(* request either raises or returns a series of (timestamp, amount) in     *)
(* chronological order, whose index is timezone-aware or naive.  The       *)
(* provider's timestamps are midnights.  The data is fixed for a session.  *)
(***************************************************************************)
HoursPerDay == 24

\* pd.to_datetime(a date): midnight of that day
ToDatetime(d) == d * HoursPerDay

\* Timestamp.date()
DateOf(ts) == ts \div HoursPerDay

Dates == 1..MaxDate

\* The per-share amount declared on day d: 5.5 rupees on even days, 0.125 on odd
AmountOn(d) == IF d % 2 = 0 THEN 55000 ELSE 1250

SortedDates(D) ==
    CHOOSE s \in [1..Cardinality(D) -> D] :
        \A a, b \in 1..Cardinality(D) : a < b => s[a] < s[b]

SeriesOver(D) ==
    [k \in 1..Cardinality(D) |->
        [ts |-> ToDatetime(SortedDates(D)[k]), amount |-> AmountOn(SortedDates(D)[k])]]

AllSeries == {SeriesOver(D) : D \in SUBSET Dates}

FetchError == [kind |-> "error", tz_aware |-> FALSE, events |-> <<>>]
EmptySeries == [kind |-> "series", tz_aware |-> FALSE, events |-> <<>>]

\* Naive series of every shape, and the whole history with a timezone-aware index
Outcomes ==
    {FetchError} \cup
    {[kind |-> "series", tz_aware |-> FALSE, events |-> ev] : ev \in AllSeries} \cup
    {[kind |-> "series", tz_aware |-> TRUE, events |-> SeriesOver(Dates)]}

\* One outcome of each kind
OutcomeKinds ==
    {FetchError, EmptySeries,
     [kind |-> "series", tz_aware |-> FALSE, events |-> SeriesOver(Dates)],
     [kind |-> "series", tz_aware |-> TRUE, events |-> SeriesOver(Dates)]}

\* Tickers the provider has a history for; any other ticker gets `unlisted'
Listed == {WiproNS}

\* yf.Ticker(ticker, session=session).dividends
Fetch(ticker) == IF ticker \in Listed THEN dividends[ticker] ELSE unlisted

(***************************************************************************)
(* Arithmetic of the engine.                                               *)
(***************************************************************************)
TdsPercent == 10

\* x * (p / 100)
Percent(x, p) == (x * p) \div 100

\* round(x, 2): to a whole paisa (100 units), halves to the even paisa
Round2(x) ==
    LET q == x \div 100
        r == x % 100
    IN  IF r < 50 THEN q * 100
        ELSE IF r > 50 THEN (q + 1) * 100
        ELSE IF q % 2 = 0 THEN q * 100 ELSE (q + 1) * 100

RECURSIVE SumPayouts(_, _)
SumPayouts(events, qty) ==
    IF events = <<>> THEN 0
    ELSE Head(events).amount * qty + SumPayouts(Tail(events), qty)

\* The filter with the purchase date included
ExDateFilterInclusive(events, buy_date) ==
    SelectSeq(events, LAMBDA e : e.ts >= buy_date)

\* line 169: div_history[div_history.index > buy_date]
ExDateFilter(events, buy_date) ==
    SelectSeq(events, LAMBDA e : e.ts > buy_date)

\* lines 173-183: one row of the transaction log
PayoutRow(name, ticker, qty, e) ==
    [Stock |-> name,
     Symbol |-> ticker,
     Ex_Date |-> DateOf(e.ts),
     Dividend_Share |-> <<"Rs", e.amount>>,
     Qty |-> qty,
     Total_Payout |-> Round2(e.amount * qty)]

\* Comparing a timezone-aware index with the naive buy_date raises TypeError
RaisesInTry(div_history) ==
    \/ div_history.kind = "error"
    \/ div_history.events # <<>> /\ div_history.tz_aware

(***************************************************************************)
(* df.sort_values(by="Ex-Date", ascending=False): the default sort kind is *)
(* not stable, so rows of equal Ex-Date may come out in any order.         *)
(***************************************************************************)
RECURSIVE SortOrders(_, _)
SortOrders(rows, S) ==
    IF S = {} THEN {<<>>}
    ELSE LET top == MaxOf({rows[k].Ex_Date : k \in S})
         IN  UNION { {<<rows[k]>> \o t : t \in SortOrders(rows, S \ {k})} :
                       k \in {j \in S : rows[j].Ex_Date = top} }

\* The sort with ascending left at its default
sort_values_ascending(rows) ==
    {[k \in 1..Len(t) |-> t[Len(t) + 1 - k]] : t \in SortOrders(rows, 1..Len(rows))}

sort_values(rows) == SortOrders(rows, 1..Len(rows))

(***************************************************************************)
(* The state after construction: an empty portfolio, the widgets' defaults *)
(* (30% slab, TDS applied), and the script run once to its end.            *)
(***************************************************************************)
InitWith(stock_map, outcomes) ==
    /\ stock_map_df \in {{}, stock_map}
    /\ dividends \in [Listed -> outcomes]
    /\ unlisted \in {FetchError, EmptySeries}
    /\ portfolio = <<>>
    /\ tax_slab = 30
    /\ apply_tds = TRUE
    /\ form_msg = "none"
    /\ pc = "done"
    /\ i = 1
    /\ total_gross_dividend = 0
    /\ all_payouts = <<>>
    /\ origin = <<>>
    /\ errors = <<>>
    /\ fetch_log = <<>>
    /\ tds_amount = 0
    /\ income_tax_amount = 0
    /\ final_in_hand = 0
    /\ df_results = <<>>
    /\ prev_run = <<>>

(***************************************************************************)
(* What a completed run showed.                                            *)
(***************************************************************************)
Output ==
    [gross |-> total_gross_dividend,
     tds |-> tds_amount,
     tax |-> income_tax_amount,
     net |-> final_in_hand,
     payouts |-> all_payouts,
     rows |-> {df_results[k] : k \in 1..Len(df_results)}]

\* The previous run's output, kept while the portfolio and the tax widgets
\* stay as they are (the provider's data is fixed).
Remember(pf, slab, tds) ==
    IF pc = "done" /\ Len(portfolio) > 0 /\ pf = portfolio
       /\ slab = tax_slab /\ tds = apply_tds
    THEN <<Output>>
    ELSE <<>>

\* The engine's start with the accumulators carried over from the previous run
StartEngineCarryOver(pf) ==
    /\ UNCHANGED <<total_gross_dividend, all_payouts, origin>>
    /\ errors' = <<>>
    /\ fetch_log' = <<>>
    /\ tds_amount' = 0
    /\ income_tax_amount' = 0
    /\ final_in_hand' = 0
    /\ df_results' = <<>>
    /\ i' = 1
    /\ pc' = IF Len(pf) > 0 THEN "loop" ELSE "done"

(***************************************************************************)
(* Lines 129-145 and 219-220: the engine's start in a script run over the  *)
(* portfolio pf.  The accumulators are fresh locals of the run.            *)
(***************************************************************************)
StartEngine(pf) ==
    /\ total_gross_dividend' = 0
    /\ all_payouts' = <<>>
    /\ origin' = <<>>
    /\ errors' = <<>>
    /\ fetch_log' = <<>>
    /\ tds_amount' = 0
    /\ income_tax_amount' = 0
    /\ final_in_hand' = 0
    /\ df_results' = <<>>
    /\ i' = 1
    /\ pc' = IF Len(pf) > 0 THEN "loop" ELSE "done"

(***************************************************************************)
(* The sidebar form submitted, lines 55-109, then the rest of the script.  *)
(***************************************************************************)
Submit(sel, qty_input, buy_date_input) ==
    /\ IF Truthy(sel.ticker)
       THEN /\ portfolio' = Append(portfolio,
                                   [Ticker |-> sel.ticker, Name |-> sel.name,
                                    Qty |-> qty_input, BuyDate |-> buy_date_input])
            /\ form_msg' = "success"
       ELSE /\ portfolio' = portfolio
            /\ form_msg' = "error"
    /\ Len(portfolio') <= MaxHoldings
    /\ prev_run' = Remember(portfolio', tax_slab, apply_tds)
    /\ StartEngine(portfolio')
    /\ UNCHANGED <<stock_map_df, dividends, unlisted, tax_slab, apply_tds>>

\* The reference list is loaded: the selectbox (index=None: nothing selected
\* until the user picks a label)
AddStockSelect(user_selection, qty_input, buy_date_input) ==
    /\ pc = "done"
    /\ stock_map_df # {}
    /\ user_selection \in stock_map_df \cup {None}
    /\ Submit(ResolveSelection(user_selection), qty_input, buy_date_input)

\* The reference list is missing: the manual text box
AddStockManual(raw_input, qty_input, buy_date_input) ==
    /\ pc = "done"
    /\ stock_map_df = {}
    /\ Submit(ResolveManual(raw_input), qty_input, buy_date_input)

\* lines 112-114: the clear button, then st.rerun()
ClearPortfolio ==
    /\ pc = "done"
    /\ portfolio' = <<>>
    /\ form_msg' = "none"
    /\ prev_run' = <<>>
    /\ StartEngine(<<>>)
    /\ UNCHANGED <<stock_map_df, dividends, unlisted, tax_slab, apply_tds>>

\* lines 124-126: a tax widget changed, which re-executes the script
SetTaxConfig(slab, tds) ==
    /\ pc = "done"
    /\ <<slab, tds>> # <<tax_slab, apply_tds>>
    /\ tax_slab' = slab
    /\ apply_tds' = tds
    /\ form_msg' = "none"
    /\ prev_run' = Remember(portfolio, slab, tds)
    /\ StartEngine(portfolio)
    /\ UNCHANGED <<stock_map_df, dividends, unlisted, portfolio>>

\* A loop pass in which an exception leaves the loop
ProcessHoldingAbortOnError ==
    /\ pc = "loop"
    /\ i <= Len(portfolio)
    /\ LET item == portfolio[i]
           ticker == item.Ticker
           name == item.Name
           qty == item.Qty
           buy_date == ToDatetime(item.BuyDate)
           div_history == Fetch(ticker)
           my_dividends == ExDateFilter(div_history.events, buy_date)
       IN  /\ fetch_log' = Append(fetch_log, ticker)
           /\ IF RaisesInTry(div_history)
              THEN /\ errors' = Append(errors, ticker)
                   /\ i' = Len(portfolio) + 1
                   /\ UNCHANGED <<total_gross_dividend, all_payouts, origin>>
              ELSE /\ errors' = errors
                   /\ i' = i + 1
                   /\ total_gross_dividend' =
                          total_gross_dividend + SumPayouts(my_dividends, qty)
                   /\ all_payouts' = all_payouts \o
                          [k \in 1..Len(my_dividends) |->
                              PayoutRow(name, ticker, qty, my_dividends[k])]
                   /\ origin' = origin \o [k \in 1..Len(my_dividends) |-> i]
    /\ UNCHANGED <<stock_map_df, dividends, unlisted, portfolio, tax_slab, apply_tds,
                   form_msg, pc, tds_amount, income_tax_amount, final_in_hand,
                   df_results, prev_run>>

(***************************************************************************)
(* One pass of the holdings loop, lines 147-187.                           *)
(***************************************************************************)
ProcessHolding ==
    /\ pc = "loop"
    /\ i <= Len(portfolio)
    /\ LET item == portfolio[i]
           ticker == item.Ticker
           name == item.Name
           qty == item.Qty
           buy_date == ToDatetime(item.BuyDate)
           div_history == Fetch(ticker)
           my_dividends == ExDateFilter(div_history.events, buy_date)
       IN  /\ fetch_log' = Append(fetch_log, ticker)
           /\ IF RaisesInTry(div_history)
              THEN /\ errors' = Append(errors, ticker)
                   /\ UNCHANGED <<total_gross_dividend, all_payouts, origin>>
              ELSE /\ errors' = errors
                   /\ total_gross_dividend' =
                          total_gross_dividend + SumPayouts(my_dividends, qty)
                   /\ all_payouts' = all_payouts \o
                          [k \in 1..Len(my_dividends) |->
                              PayoutRow(name, ticker, qty, my_dividends[k])]
                   /\ origin' = origin \o [k \in 1..Len(my_dividends) |-> i]
    /\ i' = i + 1
    /\ UNCHANGED <<stock_map_df, dividends, unlisted, portfolio, tax_slab, apply_tds,
                   form_msg, pc, tds_amount, income_tax_amount, final_in_hand,
                   df_results, prev_run>>

(***************************************************************************)
(* Lines 189-217: the summary figures and the sorted transaction log.      *)
(***************************************************************************)
\* line 192
TdsAmount(gross, tds) == IF tds THEN Percent(gross, TdsPercent) ELSE 0

\* line 193
IncomeTax(gross, slab) == Percent(gross, slab)

\* The net figure with the withholding subtracted as well
FinalInHandLessTds(gross, tax, tds_amt) == gross - tax - tds_amt

\* line 194
FinalInHand(gross, tax, tds_amt) == gross - tax

Results ==
    /\ pc = "loop"
    /\ i > Len(portfolio)
    /\ tds_amount' = TdsAmount(total_gross_dividend, apply_tds)
    /\ income_tax_amount' = IncomeTax(total_gross_dividend, tax_slab)
    /\ final_in_hand' = FinalInHand(total_gross_dividend, income_tax_amount', tds_amount')
    /\ df_results' \in sort_values(all_payouts)
    /\ pc' = "done"
    /\ UNCHANGED <<stock_map_df, dividends, unlisted, portfolio, tax_slab, apply_tds,
                   form_msg, i, total_gross_dividend, all_payouts, origin, errors,
                   fetch_log, prev_run>>

(***************************************************************************)
(* Widget ranges.                                                          *)
(***************************************************************************)
TaxSlabs == {0, 10, 20, 30}
\* Quantity and purchase date as filled in: the widgets' defaults (100 shares,
\* the first day) and one share bought a day later
FormFills == {[qty |-> 100, buy_date |-> 1], [qty |-> 1, buy_date |-> 2]}

NextWith(manual_inputs, fills) ==
    \/ \E sel \in stock_map_df \cup {None}, f \in fills :
           AddStockSelect(sel, f.qty, f.buy_date)
    \/ \E raw \in manual_inputs, f \in fills :
           AddStockManual(raw, f.qty, f.buy_date)
    \/ ClearPortfolio
    \/ \E slab \in TaxSlabs, tds \in BOOLEAN : SetTaxConfig(slab, tds)
    \/ ProcessHolding
    \/ Results

Init == InitWith(StockMap, Outcomes)
Next == NextWith(ManualInputs, FormFills)
Spec == Init /\ [][Next]_vars

\* The form runs: the richer reference list and manual entries, the widgets'
\* default quantity and date, one provider outcome of each kind.
DefaultFill == [qty |-> 100, buy_date |-> 1]
FormInit == InitWith(FormStockMap, OutcomeKinds)
FormNext == NextWith(FormManualInputs, {DefaultFill})
FormSpec == FormInit /\ [][FormNext]_vars

\* The script runs sequentially to its end: a loop pass or the results section
\* that can run does run.
LiveInit == InitWith(StockMap, OutcomeKinds)
LiveSpec == LiveInit /\ [][Next]_vars /\ WF_vars(ProcessHolding) /\ WF_vars(Results)

(***************************************************************************)
(* Vocabulary of the properties.                                           *)
(***************************************************************************)
\* An aggregation run over a non-empty portfolio has completed
RunComplete == pc = "done" /\ Len(portfolio) > 0

\* The dividend history the provider holds for the k-th holding
History(k) == Fetch(portfolio[k].Ticker)

RecordDates(k) == {DateOf(History(k).events[n].ts) : n \in 1..Len(History(k).events)}

\* The line items emitted for the k-th holding
RowsOf(k) == {r \in 1..Len(all_payouts) : origin[r] = k}

RowsOn(k, d) == {r \in RowsOf(k) : all_payouts[r].Ex_Date = d}

Count(seq, x) == Cardinality({k \in 1..Len(seq) : seq[k] = x})

Range(seq) == {seq[k] : k \in 1..Len(seq)}

\* C1: for every holding and every dividend event of its ticker whose record
\* date is on or before the holding's purchase date, no payout line item is
\* ever emitted for that event; every row of the sorted log is an emitted row.
C1_NoPayoutOnOrBeforePurchase ==
    /\ \A k \in 1..Len(portfolio) : \A d \in RecordDates(k) :
           d <= portfolio[k].BuyDate => RowsOn(k, d) = {}
    /\ Range(df_results) \subseteq Range(all_payouts)

\* A completed run in which a holding has a dividend on its purchase date and
\* was paid for a later one
C1_Witness ==
    /\ RunComplete
    /\ \E k \in 1..Len(portfolio) :
           /\ portfolio[k].BuyDate \in RecordDates(k)
           /\ RowsOf(k) # {}

\* C2: after a run, for every holding whose fetch succeeded and every dividend
\* event of it with record date strictly after the purchase date, exactly one
\* line item exists for that holding and event, carrying the holding's ticker
\* and quantity and total_payout = amount_per_share * quantity (shown to the
\* nearest paisa).
C2_EligibleEventPaidOnce ==
    RunComplete =>
        \A k \in 1..Len(portfolio) :
            History(k).kind = "series" =>
                \A n \in 1..Len(History(k).events) :
                    LET e == History(k).events[n]
                        h == portfolio[k]
                    IN  DateOf(e.ts) > h.BuyDate =>
                            /\ Cardinality(RowsOn(k, DateOf(e.ts))) = 1
                            /\ \A r \in RowsOn(k, DateOf(e.ts)) :
                                   /\ all_payouts[r].Symbol = h.Ticker
                                   /\ all_payouts[r].Qty = h.Qty
                                   /\ all_payouts[r].Total_Payout % 100 = 0
                                   /\ all_payouts[r].Total_Payout - e.amount * h.Qty
                                          \in -50..50

FetchFailed(k) == History(k).kind = "error" \/ History(k).events = <<>>

RECURSIVE EligibleSum(_, _, _)
EligibleSum(events, buy_day, qty) ==
    IF events = <<>> THEN 0
    ELSE (IF DateOf(Head(events).ts) > buy_day THEN Head(events).amount * qty ELSE 0)
         + EligibleSum(Tail(events), buy_day, qty)

RECURSIVE ExpectedGross(_)
ExpectedGross(k) ==
    IF k = 0 THEN 0
    ELSE ExpectedGross(k - 1) +
         (IF FetchFailed(k) THEN 0
          ELSE EligibleSum(History(k).events, portfolio[k].BuyDate, portfolio[k].Qty))

\* C3: a holding whose fetch raises or returns an empty series contributes no
\* line item, the run still requests every holding, and the gross dividend is
\* the sum of amount_per_share * quantity over the eligible events of the
\* other holdings.
C3_FailuresIsolated ==
    RunComplete =>
        /\ \A k \in 1..Len(portfolio) : FetchFailed(k) => RowsOf(k) = {}
        /\ Len(fetch_log) = Len(portfolio)
        /\ total_gross_dividend = ExpectedGross(Len(portfolio))

TickerChars == Range(UpperCase) \cup {"0","1","2","3","4","5","6","7","8","9"} \cup {"."}

\* C4: every holding in the portfolio store is valid: a non-empty ticker of at
\* most 20 characters from [A-Z0-9.] and an integer quantity from 1 to 100000.
C4_StoredHoldingsValid ==
    \A k \in 1..Len(portfolio) :
        /\ portfolio[k].Ticker # <<>>
        /\ Len(portfolio[k].Ticker) <= 20
        /\ Range(portfolio[k].Ticker) \subseteq TickerChars
        /\ portfolio[k].Qty \in 1..100000

\* The text between the last '(' and the following ')'
ParenSegment(sel) ==
    LET after == SplitLast(sel, "(")
    IN  IF IndexesOf(after, ")") = {} THEN after
        ELSE SubSeq(after, 1, MinOf(IndexesOf(after, ")")) - 1)

IsText(x) == x # None /\ x # NaN

\* C5: submitting a selection whose parsed symbol is empty reports an error
\* and leaves the portfolio store as it was.
C5_EmptySymbolRejected ==
    [][ \A sel \in stock_map_df :
            ( /\ IsText(sel)
              /\ Strip(ParenSegment(sel)) = <<>>
              /\ AddStockSelect(sel, DefaultFill.qty, DefaultFill.buy_date) )
            => (portfolio' = portfolio /\ form_msg' = "error") ]_vars

\* A label "Company Name (SYMBOL)" with a non-blank symbol
WellFormedLabel(sel) ==
    /\ IsText(sel)
    /\ IndexesOf(sel, "(") # {}
    /\ sel[Len(sel)] = ")"
    /\ ParenSegment(sel) # <<>>
    /\ Strip(ParenSegment(sel)) = ParenSegment(sel)

LabelCompany(sel) == Strip(SubSeq(sel, 1, MaxOf(IndexesOf(sel, "(")) - 1))

LabelTicker(sel) ==
    IF EndsWith(ParenSegment(sel), DotNS) THEN ParenSegment(sel)
    ELSE ParenSegment(sel) \o DotNS

\* C6: a selection "Company Name (SYMBOL)" resolves to the display name
\* "Company Name" and to SYMBOL with ".NS" appended unless SYMBOL already ends
\* with it, and the holding is stored under them.
C6_LabelResolved ==
    [][ \A sel \in stock_map_df :
            ( /\ WellFormedLabel(sel)
              /\ AddStockSelect(sel, DefaultFill.qty, DefaultFill.buy_date) )
            => /\ Len(portfolio') = Len(portfolio) + 1
               /\ portfolio'[Len(portfolio')].Name = LabelCompany(sel)
               /\ portfolio'[Len(portfolio')].Ticker = LabelTicker(sel) ]_vars

\* C7: after a run, income tax = gross * slab / 100, net = gross - income tax,
\* and withholding = gross * 10 / 100 when enabled and 0 otherwise: the
\* withholding does not depend on the slab and the net does not depend on the
\* withholding.
C7_SummaryFigures ==
    RunComplete =>
        /\ tax_slab \in {0, 10, 20, 30}
        /\ income_tax_amount * 100 = total_gross_dividend * tax_slab
        /\ final_in_hand = total_gross_dividend - income_tax_amount
        /\ tds_amount * 100 = (IF apply_tds THEN total_gross_dividend * 10 ELSE 0)

\* A completed run with dividends, a 20% slab and the withholding applied
C7_Witness ==
    /\ RunComplete
    /\ total_gross_dividend > 0
    /\ tax_slab = 20
    /\ apply_tds
    /\ tds_amount > 0
    /\ final_in_hand < total_gross_dividend

\* C8: the transaction log of a run is ordered by Ex-Date descending and holds
\* exactly the line items accumulated during the run.
C8_LogSortedDescending ==
    RunComplete =>
        /\ \A k \in 1..(Len(df_results) - 1) :
               df_results[k].Ex_Date >= df_results[k + 1].Ex_Date
        /\ Len(df_results) = Len(all_payouts)
        /\ \A x \in Range(all_payouts) \cup Range(df_results) :
               Count(df_results, x) = Count(all_payouts, x)

\* A completed run over two paying holdings whose log had to be reordered
C8_Witness ==
    /\ RunComplete
    /\ Len(df_results) >= 3
    /\ df_results # all_payouts
    /\ \E a, b \in 1..Len(all_payouts) :
           /\ origin[a] # origin[b]
           /\ all_payouts[a].Ex_Date # all_payouts[b].Ex_Date

\* C9: a run over an unchanged portfolio, tax configuration and provider data
\* yields the same line items and the same four summary figures as the run
\* before it.
C9_RunIdempotent ==
    (RunComplete /\ prev_run # <<>>) => prev_run[1] = Output

\* A second run over unchanged inputs that paid dividends
C9_Witness ==
    /\ RunComplete
    /\ prev_run # <<>>
    /\ total_gross_dividend > 0
    /\ Len(all_payouts) >= 2

\* C10: a run eventually completes; it requests the history of each holding
\* exactly once, in portfolio order, whether or not a request failed; and the
\* portfolio store is not changed while the run is in progress.
C10_RunCompletesOneFetchEach ==
    /\ [](pc = "loop" => <>(pc = "done"))
    /\ [](/\ i - 1 <= Len(portfolio)
          /\ fetch_log = [k \in 1..(i - 1) |-> portfolio[k].Ticker]
          /\ RunComplete => i = Len(portfolio) + 1)
    /\ [][pc = "loop" => portfolio' = portfolio]_vars

\* A completed run over two holdings in which a request failed
C10_Witness ==
    /\ RunComplete
    /\ Len(portfolio) = 2
    /\ errors # <<>>
    /\ Len(fetch_log) = 2

====
